---- MODULE Spec2Model ----
(***************************************************************************)
(* A model of the Mini FP&A assistant: the workbook loader                 *)
(* (FinanceData.__init__), the currency normaliser (_to_usd), the five     *)
(* analytics operations of agent/tools.py and the question classifier of   *)
(* agent/planner.py.                                                       *)
(*                                                                         *)
(* Conventions.                                                            *)
(*  - A string the program inspects character by character (a category, a  *)
(*    month string, a question) is a sequence of one-character strings.    *)
(*  - A timestamp is [ym |-> 12*year + month-1, day |-> day of month].     *)
(*  - A float that may be NaN is <<>> (NaN) or <<v>>; amounts and rates    *)
(*    are integers, a quotient is the pair [num, den] (Python None is      *)
(*    the value None below).                                               *)
(*  - A DataFrame is [cols |-> column names, rows |-> sequence of rows],   *)
(*    a row being a function from the column names to cells.               *)
(*  - Python's None and "" (both falsy) are the empty string / sequence.   *)
(***************************************************************************)
EXTENDS Integers, Sequences, FiniteSets, TLC

VARIABLES
    workbook,   \* the uploaded Excel file: sheet name -> DataFrame as read
    pc,         \* one run of app.py: "new", then "loaded" or "failed", then
                \* "answered" once the question of the run has been served
    fd,         \* the FinanceData object: actuals, budget, cash, fx, fx_map
    question,   \* the text typed into the question box
    result      \* what the last call returned or raised

vars == <<workbook, pc, fd, question, result>>

----------------------------------------------------------------------------
(* Generic helpers                                                         *)

RECURSIVE SumMaybe(_)
\* pandas Series.sum(): NaN entries are skipped, the empty sum is 0.
SumMaybe(s) ==
    IF s = <<>> THEN 0
    ELSE (IF Head(s) = <<>> THEN 0 ELSE Head(s)[1]) + SumMaybe(Tail(s))

Column(df, c) == [i \in 1..Len(df.rows) |-> df.rows[i][c]]

NoEntity == ""
NoMonth  == <<>>

Raised(e) == [raised |-> TRUE, exc |-> e]

----------------------------------------------------------------------------
(* Strings                                                                 *)

UpperCase == <<"A","B","C","D","E","F","G","H","I","J","K","L","M",
               "N","O","P","Q","R","S","T","U","V","W","X","Y","Z">>
LowerCase == <<"a","b","c","d","e","f","g","h","i","j","k","l","m",
               "n","o","p","q","r","s","t","u","v","w","x","y","z">>
Digits    == <<"0","1","2","3","4","5","6","7","8","9">>

IsIn(ch, alphabet) == \E i \in 1..Len(alphabet) : alphabet[i] = ch
IndexIn(ch, alphabet) == CHOOSE i \in 1..Len(alphabet) : alphabet[i] = ch

Letters  == {UpperCase[i] : i \in 1..Len(UpperCase)}
            \cup {LowerCase[i] : i \in 1..Len(LowerCase)}
DigitSet == {Digits[i] : i \in 1..Len(Digits)}

IsLetter(ch) == ch \in Letters
IsDigit(ch)  == ch \in DigitSet

ToLower == [ch \in {UpperCase[i] : i \in 1..Len(UpperCase)} |->
                LowerCase[IndexIn(ch, UpperCase)]]

LowerChar(ch) == IF ch \in DOMAIN ToLower THEN ToLower[ch] ELSE ch

\* str.lower()
Lower(s) == [i \in 1..Len(s) |-> LowerChar(s[i])]

\* `pat in s` / str.contains(pat) for a literal pattern
Contains(s, pat) ==
    \E i \in 1..(Len(s) - Len(pat) + 1) : SubSeq(s, i, i + Len(pat) - 1) = pat

S_revenue   == <<"r","e","v","e","n","u","e">>
S_cogs      == <<"c","o","g","s">>
S_opex      == <<"o","p","e","x">>
S_operating == <<"o","p","e","r","a","t","i","n","g">>

----------------------------------------------------------------------------
(* Month strings: dateutil's parser.parse as _month_str_to_ts uses it      *)

\* Months since year 0 of the first day of a month; Timestamp(year, month, 1)
Ym(year, month) == 12 * year + (month - 1)

Timestamp(year, month, day) == [ym |-> Ym(year, month), day |-> day]

RECURSIVE Num(_)
\* int("2025"): the value of a run of decimal digits
Num(ds) ==
    IF ds = <<>> THEN 0
    ELSE 10 * Num(SubSeq(ds, 1, Len(ds) - 1)) + (IndexIn(ds[Len(ds)], Digits) - 1)

AllLetters(s) == \A i \in 1..Len(s) : IsLetter(s[i])
AllDigits(s)  == \A i \in 1..Len(s) : IsDigit(s[i])

\* dateutil.parser.parserinfo.MONTHS, matched in lower case
MONTHS ==
    {
        [name |-> <<"j","a","n">>, month |-> 1],
        [name |-> <<"j","a","n","u","a","r","y">>, month |-> 1],
        [name |-> <<"f","e","b">>, month |-> 2],
        [name |-> <<"f","e","b","r","u","a","r","y">>, month |-> 2],
        [name |-> <<"m","a","r">>, month |-> 3],
        [name |-> <<"m","a","r","c","h">>, month |-> 3],
        [name |-> <<"a","p","r">>, month |-> 4],
        [name |-> <<"a","p","r","i","l">>, month |-> 4],
        [name |-> <<"m","a","y">>, month |-> 5],
        [name |-> <<"j","u","n">>, month |-> 6],
        [name |-> <<"j","u","n","e">>, month |-> 6],
        [name |-> <<"j","u","l">>, month |-> 7],
        [name |-> <<"j","u","l","y">>, month |-> 7],
        [name |-> <<"a","u","g">>, month |-> 8],
        [name |-> <<"a","u","g","u","s","t">>, month |-> 8],
        [name |-> <<"s","e","p">>, month |-> 9],
        [name |-> <<"s","e","p","t">>, month |-> 9],
        [name |-> <<"s","e","p","t","e","m","b","e","r">>, month |-> 9],
        [name |-> <<"o","c","t">>, month |-> 10],
        [name |-> <<"o","c","t","o","b","e","r">>, month |-> 10],
        [name |-> <<"n","o","v">>, month |-> 11],
        [name |-> <<"n","o","v","e","m","b","e","r">>, month |-> 11],
        [name |-> <<"d","e","c">>, month |-> 12],
        [name |-> <<"d","e","c","e","m","b","e","r">>, month |-> 12]
    }

IsMonthName(w) == \E e \in MONTHS : e.name = Lower(w)
MonthNumber(w) == (CHOOSE e \in MONTHS : e.name = Lower(w)).month

\* "<month name> <yyyy>"
IsNameYear(m) ==
    /\ Len(m) >= 6
    /\ m[Len(m) - 4] = " "
    /\ AllDigits(SubSeq(m, Len(m) - 3, Len(m)))
    /\ AllLetters(SubSeq(m, 1, Len(m) - 5))

\* "yyyy-mm" and "yyyy-mm-dd"
IsIsoMonth(m) ==
    /\ Len(m) = 7
    /\ AllDigits(SubSeq(m, 1, 4)) /\ m[5] = "-" /\ AllDigits(SubSeq(m, 6, 7))

IsIsoDate(m) ==
    /\ Len(m) = 10
    /\ AllDigits(SubSeq(m, 1, 4)) /\ m[5] = "-" /\ AllDigits(SubSeq(m, 6, 7))
    /\ m[8] = "-" /\ AllDigits(SubSeq(m, 9, 10))

\* parser.parse(m) for the shapes of month string the callers produce: a
\* month name and a year, or an ISO year-month(-day).  An unknown word, a
\* month outside 1..12 or a day outside 1..31 raises ParserError; a missing
\* day is taken from the default date and is never read by the caller
\* (0 here).  The words dateutil skips or reads as a weekday ("and",
\* "mon", ...) are none of the words the questions here are made of.
parse(m) ==
    IF IsNameYear(m) THEN
        LET w == SubSeq(m, 1, Len(m) - 5)
            y == Num(SubSeq(m, Len(m) - 3, Len(m)))
        IN  IF IsMonthName(w)
            THEN [raised |-> FALSE, year |-> y, month |-> MonthNumber(w), day |-> 0]
            ELSE Raised("ParserError")
    ELSE IF IsIsoMonth(m) \/ IsIsoDate(m) THEN
        LET y  == Num(SubSeq(m, 1, 4))
            mo == Num(SubSeq(m, 6, 7))
            d  == IF IsIsoDate(m) THEN Num(SubSeq(m, 9, 10)) ELSE 0
        IN  IF mo \in 1..12 /\ (IsIsoDate(m) => d \in 1..31)
            THEN [raised |-> FALSE, year |-> y, month |-> mo, day |-> d]
            ELSE Raised("ParserError")
    ELSE Raised("ParserError")

\* _month_str_to_ts: first-of-month Timestamp of a flexible month string
month_str_to_ts(m) ==
    LET dt == parse(m)
    IN  IF dt.raised THEN dt
        ELSE [raised |-> FALSE, ts |-> Timestamp(dt.year, dt.month, 1)]

\* Series.dt.to_period("M").dt.to_timestamp(): truncate to the first of month
to_month_start(t) == [ym |-> t.ym, day |-> 1]

\* period_range called with start= in place of end=
period_range_from_start(end_ts, periods) ==
    [i \in 1..periods |-> [ym |-> end_ts.ym + i - 1, day |-> 1]]

\* pd.period_range(end=ts.to_period("M"), periods=n, freq="M").to_timestamp()
period_range(end_ts, periods) ==
    [i \in 1..periods |-> [ym |-> end_ts.ym - periods + i, day |-> 1]]

----------------------------------------------------------------------------
(* The workbook loader: FinanceData.__init__                               *)

SheetNames == {"actuals", "budget", "cash", "fx"}

ActualsRename == ("month" :> "date") @@ ("account_category" :> "category")
CashRename    == ("month" :> "date") @@ ("cash_usd" :> "cash_balance")
FxRename      == ("month" :> "date") @@ ("rate_to_usd" :> "usd_rate")

\* pd.read_excel(xls, sheet, parse_dates=["month"]): a worksheet that is not
\* in the file, or one without the column to parse, raises ValueError.
read_excel(wb, sheet) ==
    IF sheet \notin DOMAIN wb THEN Raised("ValueError")
    ELSE IF "month" \notin wb[sheet].cols THEN Raised("ValueError")
    ELSE [raised |-> FALSE, df |-> wb[sheet]]

NewName(c, map) == IF c \in DOMAIN map THEN map[c] ELSE c

\* DataFrame.rename(columns=map, inplace=True)
rename(df, map) ==
    LET cols == {NewName(c, map) : c \in df.cols}
    IN  [cols |-> cols,
         rows |-> [i \in 1..Len(df.rows) |->
                    [n \in cols |->
                        df.rows[i][CHOOSE c \in df.cols : NewName(c, map) = n]]]]

\* df["date"] = pd.to_datetime(df["date"]).dt.to_period("M").dt.to_timestamp()
normalize_dates(df) ==
    IF "date" \notin df.cols THEN df
    ELSE [df EXCEPT !.rows =
            [i \in 1..Len(df.rows) |->
                [df.rows[i] EXCEPT !["date"] = to_month_start(@)]]]

\* pd.to_numeric(cell, errors="coerce") then fillna(0): a cell that is not a
\* number (<<>>) becomes 0
to_numeric_fillna0(cell) == IF cell = <<>> THEN 0 ELSE cell[1]

coerce_numeric(df, col) ==
    [df EXCEPT !.rows =
        [i \in 1..Len(df.rows) |->
            [df.rows[i] EXCEPT ![col] = to_numeric_fillna0(@)]]]

RECURSIVE InsertByDate(_, _)
InsertByDate(sorted, row) ==
    IF sorted = <<>> THEN <<row>>
    ELSE IF row["date"].ym < Head(sorted)["date"].ym THEN <<row>> \o sorted
    ELSE <<Head(sorted)>> \o InsertByDate(Tail(sorted), row)

RECURSIVE SortRowsByDate(_)
SortRowsByDate(rows) ==
    IF rows = <<>> THEN <<>>
    ELSE InsertByDate(SortRowsByDate(SubSeq(rows, 1, Len(rows) - 1)), rows[Len(rows)])

\* DataFrame.sort_values("date")
sort_values_date(df) == [df EXCEPT !.rows = SortRowsByDate(df.rows)]

HasDuplicateKeys(rows, c1, c2) ==
    \E i, j \in 1..Len(rows) :
        i # j /\ rows[i][c1] = rows[j][c1] /\ rows[i][c2] = rows[j][c2]

\* fx.pivot(index="date", columns="currency", values="usd_rate").sort_index():
\* a grid over the dates and the currencies that occur, NaN (<<>>) where no
\* row gives the pair.  A missing column raises KeyError, two rows with the
\* same (date, currency) raise ValueError ("Index contains duplicate entries").
pivot(fx) ==
    IF "currency" \notin fx.cols \/ "usd_rate" \notin fx.cols THEN Raised("KeyError")
    ELSE IF HasDuplicateKeys(fx.rows, "date", "currency") THEN Raised("ValueError")
    ELSE LET index   == {fx.rows[i]["date"] : i \in 1..Len(fx.rows)}
             columns == {fx.rows[i]["currency"] : i \in 1..Len(fx.rows)}
         IN  [raised  |-> FALSE,
              index   |-> index,
              columns |-> columns,
              at      |-> [k \in index \X columns |->
                  LET hits == {i \in 1..Len(fx.rows) :
                                  /\ fx.rows[i]["date"] = k[1]
                                  /\ fx.rows[i]["currency"] = k[2]}
                  IN  IF hits = {} THEN <<>>
                      ELSE fx.rows[CHOOSE i \in hits : TRUE]["usd_rate"]]]

\* DataFrame.ffill(): per column, a NaN takes the last known value above it
ffill(grid) ==
    [grid EXCEPT !.at =
        [k \in DOMAIN grid.at |->
            LET known == {d \in grid.index :
                            d.ym <= k[1].ym /\ grid.at[<<d, k[2]>>] # <<>>}
            IN  IF known = {} THEN <<>>
                ELSE grid.at[<<CHOOSE d \in known : \A e \in known : e.ym <= d.ym,
                               k[2]>>]]]

\* DataFrame.bfill(): per column, a NaN takes the next known value below it
bfill(grid) ==
    [grid EXCEPT !.at =
        [k \in DOMAIN grid.at |->
            LET known == {d \in grid.index :
                            d.ym >= k[1].ym /\ grid.at[<<d, k[2]>>] # <<>>}
            IN  IF known = {} THEN <<>>
                ELSE grid.at[<<CHOOSE d \in known : \A e \in known : e.ym >= d.ym,
                               k[2]>>]]]

\* FinanceData.__init__(excel_file)
FinanceData_init(wb) ==
    LET ra == read_excel(wb, "actuals")
        rb == read_excel(wb, "budget")
        rc == read_excel(wb, "cash")
        rf == read_excel(wb, "fx")
    IN  IF ra.raised THEN ra
        ELSE IF rb.raised THEN rb
        ELSE IF rc.raised THEN rc
        ELSE IF rf.raised THEN rf
        ELSE
        LET a1 == normalize_dates(rename(ra.df, ActualsRename))
            b1 == normalize_dates(rename(rb.df, ActualsRename))
            c1 == normalize_dates(rename(rc.df, CashRename))
            f1 == normalize_dates(rename(rf.df, FxRename))
        IN  IF "amount" \notin a1.cols \/ "amount" \notin b1.cols
            THEN Raised("KeyError")
            ELSE
            LET c2 == IF "cash_balance" \in c1.cols
                      THEN coerce_numeric(c1, "cash_balance") ELSE c1
                f2 == sort_values_date(f1)
                pv == pivot(f2)
            IN  IF pv.raised THEN pv
                ELSE [raised |-> FALSE,
                      self   |-> [actuals |-> coerce_numeric(a1, "amount"),
                                  budget  |-> coerce_numeric(b1, "amount"),
                                  cash    |-> c2,
                                  fx      |-> f2,
                                  fx_map  |-> bfill(ffill(
                                      [index |-> pv.index, columns |-> pv.columns,
                                       at |-> pv.at]))]]

----------------------------------------------------------------------------
(* The currency normaliser: FinanceData._to_usd                            *)

\* lookup_rate(row): fx_map.loc[date, currency]; any exception (no currency
\* column, a date that is not in the index, a currency that is not a
\* column) gives 1.0 on both paths of the handler
lookup_rate(self, row, currency_col) ==
    IF /\ currency_col \in DOMAIN row
       /\ row["date"] \in self.fx_map.index
       /\ row[currency_col] \in self.fx_map.columns
    THEN self.fx_map.at[<<row["date"], row[currency_col]>>]
    ELSE <<1>>

\* amount * rate with a rate that may be NaN
Times(amount, rate) == IF rate = <<>> THEN <<>> ELSE <<amount * rate[1]>>

\* _to_usd(df, amount_col, currency_col); amount_col is a column of df
to_usd(self, df, amount_col, currency_col) ==
    [cols |-> df.cols \cup {"usd_rate", "amount_usd"},
     rows |-> [i \in 1..Len(df.rows) |->
        LET row  == [df.rows[i] EXCEPT !["date"] = to_month_start(@)]
            rate == lookup_rate(self, row, currency_col)
        IN  ("usd_rate" :> rate) @@ ("amount_usd" :> Times(row[amount_col], rate))
            @@ row]]

----------------------------------------------------------------------------
(* The analytics engine                                                    *)

IsRevenue(r) == Lower(r["category"]) = S_revenue
IsCogs(r)    == Lower(r["category"]) = S_cogs
\* category.str.lower().str.contains("opex|operating")
IsOpex(r)    == Contains(Lower(r["category"]), S_opex)
                \/ Contains(Lower(r["category"]), S_operating)

\* self._to_usd(frame)["amount_usd"].sum()
usd_sum(self, df, rows) ==
    SumMaybe(Column(to_usd(self, [cols |-> df.cols, rows |-> rows],
                           "amount", "currency"), "amount_usd"))

\* revenue_vs_budget with the entity filter left off the budget side
revenue_vs_budget_budget_unfiltered(self, month, entity) ==
    LET p == month_str_to_ts(month)
    IN  IF p.raised THEN p
        ELSE IF "category" \notin self.actuals.cols
                \/ "category" \notin self.budget.cols
        THEN Raised("KeyError")
        ELSE IF entity # NoEntity
                /\ ("entity" \notin self.actuals.cols
                    \/ "entity" \notin self.budget.cols)
        THEN Raised("KeyError")
        ELSE
        LET ts == p.ts
            a0 == SelectSeq(self.actuals.rows,
                            LAMBDA r : r["date"] = ts /\ IsRevenue(r))
            b0 == SelectSeq(self.budget.rows,
                            LAMBDA r : r["date"] = ts /\ IsRevenue(r))
            a  == IF entity # NoEntity
                  THEN SelectSeq(a0, LAMBDA r : r["entity"] = entity) ELSE a0
            b  == b0
        IN  [raised     |-> FALSE,
             month      |-> ts,
             actual_usd |-> usd_sum(self, self.actuals, a),
             budget_usd |-> usd_sum(self, self.budget, b)]

\* revenue_vs_budget(month, entity)
revenue_vs_budget(self, month, entity) ==
    LET p == month_str_to_ts(month)
    IN  IF p.raised THEN p
        ELSE IF "category" \notin self.actuals.cols
                \/ "category" \notin self.budget.cols
        THEN Raised("KeyError")
        ELSE IF entity # NoEntity
                /\ ("entity" \notin self.actuals.cols
                    \/ "entity" \notin self.budget.cols)
        THEN Raised("KeyError")
        ELSE
        LET ts == p.ts
            a0 == SelectSeq(self.actuals.rows,
                            LAMBDA r : r["date"] = ts /\ IsRevenue(r))
            b0 == SelectSeq(self.budget.rows,
                            LAMBDA r : r["date"] = ts /\ IsRevenue(r))
            a  == IF entity # NoEntity
                  THEN SelectSeq(a0, LAMBDA r : r["entity"] = entity) ELSE a0
            b  == IF entity # NoEntity
                  THEN SelectSeq(b0, LAMBDA r : r["entity"] = entity) ELSE b0
        IN  [raised     |-> FALSE,
             month      |-> ts,
             actual_usd |-> usd_sum(self, self.actuals, a),
             budget_usd |-> usd_sum(self, self.budget, b)]

\* Series.max() of a date column: the latest date, NaT (<<>>) when empty
max_date(df) ==
    IF df.rows = <<>> THEN <<>>
    ELSE LET ds == {df.rows[i]["date"] : i \in 1..Len(df.rows)}
         IN  <<CHOOSE d \in ds : \A e \in ds : e.ym <= d.ym>>

\* gross_margin_row with the guard written `rev_usd <= 0`
gross_margin_row_guard_le(self, ts) ==
    LET rev  == SelectSeq(self.actuals.rows,
                          LAMBDA r : r["date"] = ts /\ IsRevenue(r))
        cogs == SelectSeq(self.actuals.rows,
                          LAMBDA r : r["date"] = ts /\ IsCogs(r))
        rev_usd  == usd_sum(self, self.actuals, rev)
        cogs_usd == usd_sum(self, self.actuals, cogs)
    IN  [date        |-> ts,
         revenue_usd |-> rev_usd,
         cogs_usd    |-> cogs_usd,
         gross_margin_pct |->
            IF rev_usd <= 0 THEN <<>>
            ELSE <<[num |-> rev_usd - cogs_usd, den |-> rev_usd]>>]

\* One row of gross_margin_trend: the body of the loop over months_list
gross_margin_row(self, ts) ==
    LET rev  == SelectSeq(self.actuals.rows,
                          LAMBDA r : r["date"] = ts /\ IsRevenue(r))
        cogs == SelectSeq(self.actuals.rows,
                          LAMBDA r : r["date"] = ts /\ IsCogs(r))
        rev_usd  == usd_sum(self, self.actuals, rev)
        cogs_usd == usd_sum(self, self.actuals, cogs)
    IN  [date        |-> ts,
         revenue_usd |-> rev_usd,
         cogs_usd    |-> cogs_usd,
         gross_margin_pct |->
            IF rev_usd = 0 THEN <<>>
            ELSE <<[num |-> rev_usd - cogs_usd, den |-> rev_usd]>>]

\* gross_margin_trend(months, end_month).  With end_month omitted and no
\* actuals rows the latest date is NaT, which has no to_period: the call
\* raises.
gross_margin_trend(self, months, end_month) ==
    LET p == IF end_month # NoMonth THEN month_str_to_ts(end_month)
             ELSE IF max_date(self.actuals) = <<>> THEN Raised("AttributeError")
             ELSE [raised |-> FALSE, ts |-> max_date(self.actuals)[1]]
    IN  IF p.raised THEN p
        ELSE
        LET months_list == period_range(p.ts, months)
        IN  IF months_list # <<>> /\ "category" \notin self.actuals.cols
            THEN Raised("KeyError")
            ELSE [raised |-> FALSE,
                  rows   |-> [i \in 1..Len(months_list) |->
                                gross_margin_row(self, months_list[i])]]

\* The filtered opex rows of a month, converted (opex_breakdown up to _to_usd)
opex_rows(self, ts, entity) ==
    LET o0 == SelectSeq(self.actuals.rows,
                        LAMBDA r : r["date"] = ts /\ IsOpex(r))
        o  == IF entity # NoEntity
              THEN SelectSeq(o0, LAMBDA r : r["entity"] = entity) ELSE o0
    IN  to_usd(self, [cols |-> self.actuals.cols, rows |-> o],
               "amount", "currency").rows

\* o_usd.groupby("category")["amount_usd"].sum().reset_index()
\*      .rename(columns={"category": "account"}): one (account, sum) per
\* category that occurs
groupby_category_sum(rows) ==
    {[account    |-> c,
      amount_usd |-> SumMaybe(Column([rows |-> SelectSeq(rows,
                                        LAMBDA r : r["category"] = c)],
                                     "amount_usd"))] :
        c \in {rows[i]["category"] : i \in 1..Len(rows)}}

IsDescending(s) ==
    \A i \in 1..(Len(s) - 1) : s[i].amount_usd >= s[i + 1].amount_usd

\* sort_values with ascending left at its default (True)
sort_values_asc(groups) ==
    {s \in [1..Cardinality(groups) -> groups] :
        /\ \A g \in groups : \E i \in DOMAIN s : s[i] = g
        /\ \A i \in 1..(Len(s) - 1) : s[i].amount_usd <= s[i + 1].amount_usd}

\* .sort_values("amount_usd", ascending=False): the default sort is not
\* stable, so any descending arrangement of the groups may come out
sort_values_desc(groups) ==
    {s \in [1..Cardinality(groups) -> groups] :
        /\ \A g \in groups : \E i \in DOMAIN s : s[i] = g
        /\ IsDescending(s)}

\* opex_breakdown(month, entity): the set of frames it may return
opex_breakdown(self, month, entity) ==
    LET p == month_str_to_ts(month)
    IN  IF p.raised THEN {p}
        ELSE IF "category" \notin self.actuals.cols THEN {Raised("KeyError")}
        ELSE IF entity # NoEntity /\ "entity" \notin self.actuals.cols
        THEN {Raised("KeyError")}
        ELSE {[raised |-> FALSE, rows |-> s] :
                s \in sort_values_desc(
                        groupby_category_sum(opex_rows(self, p.ts, entity)))}

\* ebitda_proxy with the entity filter left off the opex rows
ebitda_proxy_opex_unfiltered(self, month, entity) ==
    LET p == month_str_to_ts(month)
    IN  IF p.raised THEN p
        ELSE IF "category" \notin self.actuals.cols THEN Raised("KeyError")
        ELSE IF entity # NoEntity /\ "entity" \notin self.actuals.cols
        THEN Raised("KeyError")
        ELSE
        LET ts    == p.ts
            rev0  == SelectSeq(self.actuals.rows,
                               LAMBDA r : r["date"] = ts /\ IsRevenue(r))
            cogs0 == SelectSeq(self.actuals.rows,
                               LAMBDA r : r["date"] = ts /\ IsCogs(r))
            opex0 == SelectSeq(self.actuals.rows,
                               LAMBDA r : r["date"] = ts /\ IsOpex(r))
            rev   == IF entity # NoEntity
                     THEN SelectSeq(rev0, LAMBDA r : r["entity"] = entity) ELSE rev0
            cogs  == IF entity # NoEntity
                     THEN SelectSeq(cogs0, LAMBDA r : r["entity"] = entity) ELSE cogs0
            opex  == opex0
            rev_usd  == usd_sum(self, self.actuals, rev)
            cogs_usd == usd_sum(self, self.actuals, cogs)
            opex_usd == usd_sum(self, self.actuals, opex)
        IN  [raised      |-> FALSE,
             month       |-> ts,
             ebitda_usd  |-> rev_usd - cogs_usd - opex_usd,
             revenue_usd |-> rev_usd,
             cogs_usd    |-> cogs_usd,
             opex_usd    |-> opex_usd]

\* ebitda_proxy(month, entity)
ebitda_proxy(self, month, entity) ==
    LET p == month_str_to_ts(month)
    IN  IF p.raised THEN p
        ELSE IF "category" \notin self.actuals.cols THEN Raised("KeyError")
        ELSE IF entity # NoEntity /\ "entity" \notin self.actuals.cols
        THEN Raised("KeyError")
        ELSE
        LET ts    == p.ts
            rev0  == SelectSeq(self.actuals.rows,
                               LAMBDA r : r["date"] = ts /\ IsRevenue(r))
            cogs0 == SelectSeq(self.actuals.rows,
                               LAMBDA r : r["date"] = ts /\ IsCogs(r))
            opex0 == SelectSeq(self.actuals.rows,
                               LAMBDA r : r["date"] = ts /\ IsOpex(r))
            rev   == IF entity # NoEntity
                     THEN SelectSeq(rev0, LAMBDA r : r["entity"] = entity) ELSE rev0
            cogs  == IF entity # NoEntity
                     THEN SelectSeq(cogs0, LAMBDA r : r["entity"] = entity) ELSE cogs0
            opex  == IF entity # NoEntity
                     THEN SelectSeq(opex0, LAMBDA r : r["entity"] = entity) ELSE opex0
            rev_usd  == usd_sum(self, self.actuals, rev)
            cogs_usd == usd_sum(self, self.actuals, cogs)
            opex_usd == usd_sum(self, self.actuals, opex)
        IN  [raised      |-> FALSE,
             month       |-> ts,
             ebitda_usd  |-> rev_usd - cogs_usd - opex_usd,
             revenue_usd |-> rev_usd,
             cogs_usd    |-> cogs_usd,
             opex_usd    |-> opex_usd]

\* The burn window of cash_runway_months
WindowMonths == 3

\* c_usd.set_index("date").reindex(months): the row of each month of the
\* window, all-NaN where the month has none (dates are unique here)
reindex(rows, months) ==
    [i \in 1..Len(months) |->
        LET hits == {j \in 1..Len(rows) : rows[j]["date"] = months[i]}
        IN  IF hits = {}
            THEN [cash_balance |-> <<>>, usd_rate |-> <<>>]
            ELSE LET r == rows[CHOOSE j \in hits : TRUE]
                 IN  [cash_balance |-> <<r["cash_balance"]>>,
                      usd_rate     |-> r["usd_rate"]]]

\* cs["cash_balance"] * cs["usd_rate"], NaN where either is
cash_balance_usd(cs) ==
    [i \in 1..Len(cs) |->
        IF cs[i].cash_balance = <<>> THEN <<>>
        ELSE Times(cs[i].cash_balance[1], cs[i].usd_rate)]

\* Series.ffill() and Series.bfill() down a column
series_ffill(s) ==
    [i \in 1..Len(s) |->
        LET known == {j \in 1..i : s[j] # <<>>}
        IN  IF known = {} THEN <<>>
            ELSE s[CHOOSE j \in known : \A k \in known : k <= j]]

\* the backward fill left out
series_bfill_missing(s) == s

series_bfill(s) ==
    [i \in 1..Len(s) |->
        LET known == {j \in i..Len(s) : s[j] # <<>>}
        IN  IF known = {} THEN <<>>
            ELSE s[CHOOSE j \in known : \A k \in known : k >= j]]

\* cs["prev"] - cs["cash_balance_usd"] with prev = shift(1), then dropna():
\* the burn of each month that has a predecessor, where both are numbers
net_burn(bal) ==
    LET idx == SelectSeq([i \in 1..Len(bal) |-> i],
                         LAMBDA i : i > 1 /\ bal[i] # <<>> /\ bal[i - 1] # <<>>)
    IN  [k \in 1..Len(idx) |-> <<bal[idx[k] - 1][1] - bal[idx[k]][1]>>]

\* Series.mean(): NaN (<<>>) of an empty series, else sum / count
mean(s) == IF s = <<>> THEN <<>> ELSE <<[num |-> SumMaybe(s), den |-> Len(s)]>>

\* cash_runway_months(as_of_month, entity)
cash_runway_months(self, as_of_month, entity) ==
    LET p == IF as_of_month # NoMonth THEN month_str_to_ts(as_of_month)
             ELSE IF max_date(self.cash) = <<>> THEN Raised("AttributeError")
             ELSE [raised |-> FALSE, ts |-> max_date(self.cash)[1]]
    IN  IF p.raised THEN p
        ELSE IF entity # NoEntity /\ "entity" \notin self.cash.cols
        THEN Raised("KeyError")
        ELSE IF "cash_balance" \notin self.cash.cols THEN Raised("KeyError")
        ELSE
        LET ts     == p.ts
            months == period_range(ts, WindowMonths)
            c      == IF entity # NoEntity
                      THEN SelectSeq(self.cash.rows, LAMBDA r : r["entity"] = entity)
                      ELSE self.cash.rows
            c_usd  == to_usd(self, [cols |-> self.cash.cols, rows |-> c],
                             "cash_balance", "currency").rows
        IN  IF \E i, j \in 1..Len(c_usd) :
                    i # j /\ c_usd[i]["date"] = c_usd[j]["date"]
            THEN Raised("ValueError")   \* cannot reindex on duplicate labels
            ELSE
            LET cs       == reindex(c_usd, months)
                bal      == series_bfill(series_ffill(cash_balance_usd(cs)))
                avg_burn == mean(net_burn(bal))
                current_cash == bal[Len(bal)]
            IN  [raised |-> FALSE,
                 as_of  |-> ts,
                 current_cash_usd     |-> current_cash,
                 avg_monthly_burn_usd |->
                    IF avg_burn = <<>> THEN [num |-> 0, den |-> 1] ELSE avg_burn[1],
                 runway_months |->
                    IF avg_burn = <<>> \/ avg_burn[1].num <= 0
                    THEN [inf |-> TRUE]
                    ELSE IF current_cash = <<>> THEN [inf |-> FALSE, nan |-> TRUE]
                    ELSE [inf |-> FALSE,
                          num |-> current_cash[1] * avg_burn[1].den,
                          den |-> avg_burn[1].num]]

----------------------------------------------------------------------------
(* The question classifier: agent/planner.py                               *)

S_budget == <<"b","u","d","g","e","t">>
S_gross_margin == <<"g","r","o","s","s"," ","m","a","r","g","i","n">>
S_gross_margin_pc == <<"g","r","o","s","s"," ","m","a","r","g","i","n"," ","%">>
S_gross_margin_percent == <<"g","r","o","s","s"," ","m","a","r","g","i","n"," ","p","e","r","c","e","n","t">>
S_operating_expense == <<"o","p","e","r","a","t","i","n","g"," ","e","x","p","e","n","s","e">>
S_cash_runway == <<"c","a","s","h"," ","r","u","n","w","a","y">>
S_runway == <<"r","u","n","w","a","y">>
S_ebitda == <<"e","b","i","t","d","a">>
S_earnings == <<"e","a","r","n","i","n","g","s">>
S_operating_profit == <<"o","p","e","r","a","t","i","n","g"," ","p","r","o","f","i","t">>
S_last_ == <<"l","a","s","t"," ">>
S__months == <<" ","m","o","n","t","h","s">>

RECURSIVE lstrip(_)
lstrip(s) == IF s # <<>> /\ Head(s) = " " THEN lstrip(Tail(s)) ELSE s

RECURSIVE rstrip(_)
rstrip(s) ==
    IF s # <<>> /\ s[Len(s)] = " " THEN rstrip(SubSeq(s, 1, Len(s) - 1)) ELSE s

\* str.strip()
strip(s) == rstrip(lstrip(s))

\* Length of the match of [a-zA-Z]{3,9} \d{4} that starts at i, 0 if none:
\* 3 to 9 letters (greedy, backtracking down to 3), a space, four digits
NameYearAt(q, i) ==
    LET ns == {n \in 3..9 :
                /\ i + n + 4 <= Len(q)
                /\ AllLetters(SubSeq(q, i, i + n - 1))
                /\ q[i + n] = " "
                /\ AllDigits(SubSeq(q, i + n + 1, i + n + 4))}
    IN  IF ns = {} THEN 0
        ELSE (CHOOSE n \in ns : \A k \in ns : k <= n) + 5

\* Length of the match of \d{4}-\d{2}(?:-\d{2})? that starts at i, 0 if none
IsoAt(q, i) ==
    IF /\ i + 6 <= Len(q)
       /\ AllDigits(SubSeq(q, i, i + 3)) /\ q[i + 4] = "-"
       /\ AllDigits(SubSeq(q, i + 5, i + 6))
    THEN IF /\ i + 9 <= Len(q)
            /\ q[i + 7] = "-" /\ AllDigits(SubSeq(q, i + 8, i + 9))
         THEN 10 ELSE 7
    ELSE 0

\* The alternation at i: the first alternative that matches wins
MonthAt(q, i) == IF NameYearAt(q, i) > 0 THEN NameYearAt(q, i) ELSE IsoAt(q, i)

\* re.search(r'([a-zA-Z]{3,9} \d{4}|\d{4}-\d{2}(?:-\d{2})?)', q): the text
\* of the leftmost match, None (<<>>) when there is none
month_search(q) ==
    LET starts == {i \in 1..Len(q) : MonthAt(q, i) > 0}
    IN  IF starts = {} THEN NoMonth
        ELSE LET i == CHOOSE i \in starts : \A j \in starts : i <= j
             IN  SubSeq(q, i, i + MonthAt(q, i) - 1)

\* Number of digits of the match of "last (\d+) months" at i, 0 if none
LastMonthsAt(q, i) ==
    LET ns == {n \in 1..Len(q) :
                /\ i + 4 + n + 7 <= Len(q)
                /\ SubSeq(q, i, i + 4) = S_last_
                /\ AllDigits(SubSeq(q, i + 5, i + 4 + n))
                /\ SubSeq(q, i + 5 + n, i + 4 + n + 7) = S__months}
    IN  IF ns = {} THEN 0 ELSE CHOOSE n \in ns : \A k \in ns : k <= n

DefaultMonths == 3

\* int(m.group(1)) if m else 3, for m = re.search(r"last (\d+) months", q)
last_months(q) ==
    LET starts == {i \in 1..Len(q) : LastMonthsAt(q, i) > 0}
    IN  IF starts = {} THEN DefaultMonths
        ELSE LET i == CHOOSE i \in starts : \A j \in starts : i <= j
             IN  Num(SubSeq(q, i + 5, i + 4 + LastMonthsAt(q, i)))

\* classify(question) -> (intent, parameters)
classify(quest) ==
    LET q     == strip(Lower(quest))
        month == month_search(q)
    IN  IF Contains(q, S_revenue) /\ Contains(q, S_budget)
        THEN [intent |-> "revenue_vs_budget", params |-> [month |-> month]]
        ELSE IF Contains(q, S_gross_margin) \/ Contains(q, S_gross_margin_pc)
                \/ Contains(q, S_gross_margin_percent)
        THEN [intent |-> "gross_margin_trend",
              params |-> [months |-> last_months(q), end_month |-> month]]
        ELSE IF Contains(q, S_opex) \/ Contains(q, S_operating_expense)
        THEN [intent |-> "opex_breakdown", params |-> [month |-> month]]
        ELSE IF Contains(q, S_cash_runway) \/ Contains(q, S_runway)
        THEN [intent |-> "cash_runway", params |-> [as_of |-> month]]
        ELSE IF Contains(q, S_ebitda) \/ Contains(q, S_earnings)
                \/ Contains(q, S_operating_profit)
        THEN [intent |-> "ebitda_proxy", params |-> [month |-> month]]
        ELSE [intent |-> "unknown", params |-> [none |-> TRUE]]

----------------------------------------------------------------------------
(* Inputs: the workbooks, arguments and questions the checks draw from     *)

\* Rows per sheet, months asked of a trend, words around a month expression
MaxRows        == 2
MaxTrendMonths == 3
MaxWords       == 2
MaxFxRows      == 2

Seqs(D, n) == UNION {[1..k -> D] : k \in 0..n}

M1 == Ym(2025, 5)
M2 == Ym(2025, 6)
M3 == Ym(2025, 7)

\* Date cells as entered: any day of the month
D1 == [ym |-> M1, day |-> 1]
D2 == [ym |-> M2, day |-> 15]
D3 == [ym |-> M3, day |-> 1]

\* Month strings in the forms the callers use
Str_2025_05    == <<"2","0","2","5","-","0","5">>
Str_June_2025  == <<"J","u","n","e"," ","2","0","2","5">>
Str_Jun_2025   == <<"J","u","n"," ","2","0","2","5">>
Str_2025_06    == <<"2","0","2","5","-","0","6">>
Str_2025_06_01 == <<"2","0","2","5","-","0","6","-","0","1">>
Str_2025_07_15 == <<"2","0","2","5","-","0","7","-","1","5">>

MonthArgs == {Str_2025_05, Str_June_2025, Str_2025_07_15}

Entities   == {"A", "B"}
EntityArgs == {NoEntity} \cup Entities

Cat_Revenue   == <<"R","e","v","e","n","u","e">>
Cat_Cogs      == <<"C","O","G","S">>
Cat_Opex      == <<"O","p","e","x",":","I","T">>
Cat_Operating == <<"O","p","e","r","a","t","i","n","g"," ","R","e","v","e","n","u","e">>

\* Numeric cells as entered: <<>> is a cell that does not parse as a number
AmountCells == {<<>>, <<-1>>, <<1>>, <<2>>}

ActualsCols == {"month", "entity", "account_category", "currency", "amount"}
CashCols    == {"month", "entity", "currency", "cash_usd"}
FxCols      == {"month", "currency", "rate_to_usd"}

AmountRows(dates, entities, categories, currencies, amounts) ==
    {[month |-> d, entity |-> e, account_category |-> c, currency |-> u, amount |-> a] :
        d \in dates, e \in entities, c \in categories, u \in currencies, a \in amounts}

CashRows(dates, entities, currencies, amounts) ==
    {[month |-> d, entity |-> e, currency |-> u, cash_usd |-> a] :
        d \in dates, e \in entities, u \in currencies, a \in amounts}

FxRows(dates, currencies, rates) ==
    {[month |-> d, currency |-> u, rate_to_usd |-> <<x>>] :
        d \in dates, u \in currencies, x \in rates}

Workbook(a, b, c, f) ==
    [actuals |-> [cols |-> ActualsCols, rows |-> a],
     budget  |-> [cols |-> ActualsCols, rows |-> b],
     cash    |-> [cols |-> CashCols, rows |-> c],
     fx      |-> [cols |-> FxCols, rows |-> f]]

\* EUR at 2 in May 2025 and at 3 in June 2025; no USD rows
FxEur == <<[month |-> D1, currency |-> "EUR", rate_to_usd |-> <<2>>],
           [month |-> D2, currency |-> "EUR", rate_to_usd |-> <<3>>]>>

----------------------------------------------------------------------------
(* The state machine                                                       *)

Unloaded == [loaded |-> FALSE]
NoResult == [op |-> "none"]

Start(wb, q) ==
    /\ workbook = wb
    /\ question = q
    /\ pc = "new"
    /\ fd = Unloaded
    /\ result = NoResult

\* fd = FinanceData(excel_file), app.py's load block
Load ==
    /\ pc = "new"
    /\ LET r == FinanceData_init(workbook)
       IN  /\ pc' = IF r.raised THEN "failed" ELSE "loaded"
           /\ fd' = IF r.raised THEN Unloaded ELSE r.self
           /\ result' = [op |-> "load",
                         out |-> IF r.raised THEN r ELSE [raised |-> FALSE]]
    /\ UNCHANGED <<workbook, question>>

CallRevenueVsBudget ==
    /\ pc = "loaded"
    /\ \E month \in MonthArgs, entity \in EntityArgs :
        result' = [op |-> "revenue_vs_budget", month |-> month, entity |-> entity,
                   out |-> revenue_vs_budget(fd, month, entity)]
    /\ pc' = "answered"
    /\ UNCHANGED <<workbook, fd, question>>

CallGrossMarginTrend ==
    /\ pc = "loaded"
    /\ \E months \in 0..MaxTrendMonths, end_month \in {NoMonth} \cup MonthArgs :
        result' = [op |-> "gross_margin_trend", months |-> months,
                   end_month |-> end_month,
                   out |-> gross_margin_trend(fd, months, end_month)]
    /\ pc' = "answered"
    /\ UNCHANGED <<workbook, fd, question>>

CallOpexBreakdown ==
    /\ pc = "loaded"
    /\ \E month \in MonthArgs, entity \in EntityArgs :
        \E out \in opex_breakdown(fd, month, entity) :
            result' = [op |-> "opex_breakdown", month |-> month, entity |-> entity,
                       out |-> out]
    /\ pc' = "answered"
    /\ UNCHANGED <<workbook, fd, question>>

CallEbitdaProxy ==
    /\ pc = "loaded"
    /\ \E month \in MonthArgs, entity \in EntityArgs :
        result' = [op |-> "ebitda_proxy", month |-> month, entity |-> entity,
                   out |-> ebitda_proxy(fd, month, entity)]
    /\ pc' = "answered"
    /\ UNCHANGED <<workbook, fd, question>>

CallCashRunwayMonths ==
    /\ pc = "loaded"
    /\ \E as_of_month \in {NoMonth} \cup MonthArgs, entity \in EntityArgs :
        result' = [op |-> "cash_runway_months", as_of_month |-> as_of_month,
                   entity |-> entity,
                   out |-> cash_runway_months(fd, as_of_month, entity)]
    /\ pc' = "answered"
    /\ UNCHANGED <<workbook, fd, question>>

\* self._to_usd(self.actuals), the conversion every operation starts with
CallToUsd ==
    /\ pc = "loaded"
    /\ result' = [op |-> "to_usd",
                  out |-> [raised |-> FALSE,
                           rows |-> to_usd(fd, fd.actuals, "amount", "currency").rows]]
    /\ pc' = "answered"
    /\ UNCHANGED <<workbook, fd, question>>

----------------------------------------------------------------------------
(* Gross margin trend over varying actuals                                 *)

TrendRows == AmountRows({D1, D2}, {"A"}, {Cat_Revenue, Cat_Cogs, Cat_Opex},
                        {"EUR"}, AmountCells)

InitTrend == \E a \in Seqs(TrendRows, MaxRows) :
                Start(Workbook(a, <<>>, <<>>, FxEur), <<>>)

NextTrend == Load \/ CallGrossMarginTrend

SpecTrend == InitTrend /\ [][NextTrend]_vars

\* The month each month string of MonthArgs names
ArgMonth == (Str_2025_05 :> M1) @@ (Str_June_2025 :> M2) @@ (Str_2025_07_15 :> M3)

RECURSIVE SumOver(_, _)
\* The sum of f[i] over the indices i in S
SumOver(f, S) ==
    IF S = {} THEN 0
    ELSE LET i == CHOOSE j \in S : TRUE IN f[i] + SumOver(f, S \ {i})

\* amount * resolved USD rate of every row of a loaded frame
UsdAmounts(df) ==
    [i \in 1..Len(df.rows) |->
        LET rate == lookup_rate(fd, df.rows[i], "currency")
        IN  IF rate = <<>> THEN 0 ELSE df.rows[i]["amount"] * rate[1]]

\* The rows of a loaded frame of month ym whose lower-cased category is cat
RowsOf(df, ym, cat) ==
    {i \in 1..Len(df.rows) :
        df.rows[i]["date"].ym = ym /\ Lower(df.rows[i]["category"]) = cat}

MonthUsd(df, ym, cat) == SumOver(UsdAmounts(df), RowsOf(df, ym, cat))

TrendReturned == result.op = "gross_margin_trend" /\ ~result.out.raised

\* C2: in every row gross_margin_trend returns, gross_margin_pct is null
\* exactly when the month's summed USD revenue is 0, and is otherwise
\* (revenue_usd - cogs_usd) / revenue_usd, with revenue_usd and cogs_usd the
\* USD sums of the month's actuals rows of category "revenue" and "cogs";
\* a negative margin (cogs above revenue) is reported as such.
C2_GrossMarginPct ==
    TrendReturned =>
        \A i \in 1..Len(result.out.rows) :
            LET row  == result.out.rows[i]
                rev  == MonthUsd(fd.actuals, row.date.ym, S_revenue)
                cogs == MonthUsd(fd.actuals, row.date.ym, S_cogs)
            IN  /\ row.revenue_usd = rev
                /\ row.cogs_usd = cogs
                /\ (row.gross_margin_pct = <<>>) <=> (rev = 0)
                /\ rev # 0 =>
                    /\ row.gross_margin_pct[1].den # 0
                    /\ row.gross_margin_pct[1].num * rev
                        = (rev - cogs) * row.gross_margin_pct[1].den

\* A trend with a month of revenue 0 (null margin) and a month whose cogs
\* exceed its revenue (negative margin)
C2_Witness ==
    /\ TrendReturned
    /\ \E i \in 1..Len(result.out.rows) :
        result.out.rows[i].gross_margin_pct = <<>>
    /\ \E i \in 1..Len(result.out.rows) :
        /\ result.out.rows[i].gross_margin_pct # <<>>
        /\ result.out.rows[i].cogs_usd > result.out.rows[i].revenue_usd
        /\ result.out.rows[i].revenue_usd > 0

\* C3: gross_margin_trend(months=N, end_month=M) returns exactly N rows, one
\* per consecutive month, oldest first, the last one of month M, or of the
\* latest month of actuals when M is omitted; a month without actuals rows
\* has zero sums and a null margin.
C3_TrendShape ==
    /\ (result.op = "gross_margin_trend" /\ result.end_month # NoMonth)
            => ~result.out.raised
    /\ TrendReturned =>
        LET n    == result.months
            rows == result.out.rows
            last == IF result.end_month # NoMonth THEN ArgMonth[result.end_month]
                    ELSE CHOOSE m \in {fd.actuals.rows[i]["date"].ym :
                                            i \in 1..Len(fd.actuals.rows)} :
                            \A j \in 1..Len(fd.actuals.rows) :
                                fd.actuals.rows[j]["date"].ym <= m
        IN  /\ Len(rows) = n
            /\ \A i \in 1..n : rows[i].date = [ym |-> last - (n - i), day |-> 1]
            /\ \A i \in 1..n :
                (\A j \in 1..Len(fd.actuals.rows) :
                    fd.actuals.rows[j]["date"].ym # rows[i].date.ym)
                => /\ rows[i].revenue_usd = 0
                   /\ rows[i].cogs_usd = 0
                   /\ rows[i].gross_margin_pct = <<>>

\* Three months ending at the latest month of actuals, one of them empty
C3_Witness ==
    /\ TrendReturned
    /\ result.end_month = NoMonth
    /\ result.months = 3
    /\ Len(result.out.rows) = 3
    /\ result.out.rows[3].date.ym = M2
    /\ \E i \in 1..3 :
        \A j \in 1..Len(fd.actuals.rows) :
            fd.actuals.rows[j]["date"].ym # result.out.rows[i].date.ym
    /\ \E i \in 1..3 : result.out.rows[i].gross_margin_pct # <<>>

----------------------------------------------------------------------------
(* Revenue against budget over varying actuals and budget                  *)

RevRows == AmountRows({D1, D2}, Entities, {Cat_Revenue, Cat_Cogs},
                      {"USD", "EUR"}, {<<2>>})

InitRev == \E a \in Seqs(RevRows, MaxRows), b \in Seqs(RevRows, MaxRows) :
                /\ Len(a) + Len(b) <= MaxRows
                /\ Start(Workbook(a, b, <<>>, FxEur), <<>>)

NextRev == Load \/ CallRevenueVsBudget

SpecRev == InitRev /\ [][NextRev]_vars

\* The rows of a loaded frame that revenue_vs_budget(month, entity) is to sum
RevenueRowsOf(df, ym, entity) ==
    {i \in RowsOf(df, ym, S_revenue) :
        entity # NoEntity => df.rows[i]["entity"] = entity}

RevReturned == result.op = "revenue_vs_budget" /\ ~result.out.raised

\* C1: revenue_vs_budget returns as actual_usd the sum of amount * resolved
\* USD rate over exactly the actuals rows of category "revenue" (ignoring
\* case) dated the resolved first of month and, when an entity is given, of
\* that entity; budget_usd is the same sum over the budget rows; a side
\* without matching rows is 0 and nothing else contributes.
C1_RevenueVsBudget ==
    /\ result.op = "revenue_vs_budget" => ~result.out.raised
    /\ RevReturned =>
        LET ym == ArgMonth[result.month]
        IN  /\ result.out.month = [ym |-> ym, day |-> 1]
            /\ result.out.actual_usd =
                SumOver(UsdAmounts(fd.actuals),
                        RevenueRowsOf(fd.actuals, ym, result.entity))
            /\ result.out.budget_usd =
                SumOver(UsdAmounts(fd.budget),
                        RevenueRowsOf(fd.budget, ym, result.entity))
            /\ RevenueRowsOf(fd.actuals, ym, result.entity) = {}
                => result.out.actual_usd = 0
            /\ RevenueRowsOf(fd.budget, ym, result.entity) = {}
                => result.out.budget_usd = 0

\* A call for one entity with a converted actuals row that counts, a budget
\* row of the other entity that does not, and so a budget side of 0
C1_Witness ==
    /\ RevReturned
    /\ result.entity = "A"
    /\ result.out.actual_usd = 6
    /\ result.out.budget_usd = 0
    /\ \E j \in 1..Len(fd.budget.rows) :
        /\ fd.budget.rows[j]["entity"] = "B"
        /\ fd.budget.rows[j]["date"] = result.out.month
        /\ IsRevenue(fd.budget.rows[j])

----------------------------------------------------------------------------
(* Opex breakdown and EBITDA proxy over varying actuals                    *)

\* June rows of every kind, and one May row to tell the months apart
OpexRows == AmountRows({D2}, Entities,
                       {Cat_Revenue, Cat_Cogs, Cat_Opex, Cat_Operating},
                       {"EUR"}, {<<1>>, <<2>>})
            \cup AmountRows({D1}, {"A"}, {Cat_Opex}, {"EUR"}, {<<1>>})

InitOpex == \E a \in Seqs(OpexRows, MaxRows) :
                Start(Workbook(a, <<>>, <<>>, FxEur), <<>>)

NextOpex == Load \/ CallOpexBreakdown \/ CallEbitdaProxy

SpecOpex == InitOpex /\ [][NextOpex]_vars

\* The rows of a loaded frame of month ym whose category contains "opex" or
\* "operating", ignoring case
OpexRowsOf(df, ym) ==
    {i \in 1..Len(df.rows) :
        /\ df.rows[i]["date"].ym = ym
        /\ \/ Contains(Lower(df.rows[i]["category"]), S_opex)
           \/ Contains(Lower(df.rows[i]["category"]), S_operating)}

ForEntity(df, S, entity) ==
    {i \in S : entity # NoEntity => df.rows[i]["entity"] = entity}

\* The total of the amount_usd column of a returned breakdown
BreakdownTotal(out) ==
    SumOver([i \in 1..Len(out.rows) |-> out.rows[i].amount_usd],
            1..Len(out.rows))

EbitdaReturned == result.op = "ebitda_proxy" /\ ~result.out.raised

\* C5: ebitda_proxy returns ebitda_usd = revenue_usd - cogs_usd - opex_usd,
\* revenue_usd being the actual_usd of revenue_vs_budget and opex_usd the
\* total of opex_breakdown's amount_usd for the same month and entity; the
\* three components sum disjoint sets of actuals rows.
C5_EbitdaProxy ==
    /\ result.op = "ebitda_proxy" => ~result.out.raised
    /\ EbitdaReturned =>
        LET ym   == ArgMonth[result.month]
            out  == result.out
            rev  == ForEntity(fd.actuals, RowsOf(fd.actuals, ym, S_revenue),
                              result.entity)
            cogs == ForEntity(fd.actuals, RowsOf(fd.actuals, ym, S_cogs),
                              result.entity)
            opex == ForEntity(fd.actuals, OpexRowsOf(fd.actuals, ym),
                              result.entity)
        IN  /\ out.ebitda_usd = out.revenue_usd - out.cogs_usd - out.opex_usd
            /\ out.revenue_usd =
                revenue_vs_budget(fd, result.month, result.entity).actual_usd
            /\ \A b \in opex_breakdown(fd, result.month, result.entity) :
                ~b.raised /\ out.opex_usd = BreakdownTotal(b)
            /\ rev \cap cogs = {} /\ rev \cap opex = {} /\ cogs \cap opex = {}
            /\ out.revenue_usd = SumOver(UsdAmounts(fd.actuals), rev)
            /\ out.cogs_usd = SumOver(UsdAmounts(fd.actuals), cogs)
            /\ out.opex_usd = SumOver(UsdAmounts(fd.actuals), opex)

\* An EBITDA for one entity with an "Operating Revenue" row, which counts as
\* opex and not as revenue, and an opex row of the other entity left out
C5_Witness ==
    /\ EbitdaReturned
    /\ result.entity = "A"
    /\ result.out.opex_usd > 0
    /\ result.out.revenue_usd = 0
    /\ \E i, j \in 1..Len(fd.actuals.rows) :
        /\ fd.actuals.rows[i]["category"] = Cat_Operating
        /\ fd.actuals.rows[i]["entity"] = "A"
        /\ fd.actuals.rows[i]["date"] = result.out.month
        /\ fd.actuals.rows[j]["entity"] = "B"
        /\ fd.actuals.rows[j]["date"] = result.out.month
        /\ IsOpex(fd.actuals.rows[j])

OpexReturned == result.op = "opex_breakdown" /\ ~result.out.raised

\* The claim of C6 about a returned breakdown, over the set S of actuals rows
\* it is said to cover
BreakdownCovers(S) ==
    LET rows == result.out.rows
    IN  /\ \A i \in 1..(Len(rows) - 1) : rows[i].amount_usd >= rows[i + 1].amount_usd
        /\ \A i \in S : \E k \in 1..Len(rows) :
                rows[k].account = fd.actuals.rows[i]["category"]
        /\ \A k \in 1..Len(rows) : \E i \in S :
                rows[k].account = fd.actuals.rows[i]["category"]
        /\ \A k, l \in 1..Len(rows) : rows[k].account = rows[l].account => k = l
        /\ BreakdownTotal(result.out) = SumOver(UsdAmounts(fd.actuals), S)

\* C6 as stated: the rows of opex_breakdown are in non-increasing amount_usd
\* order, one per distinct category among the actuals rows of the month whose
\* category contains "opex" or "operating", and their amount_usd add up to
\* the USD sum of all those rows - for every entity argument.
C6_AsStated ==
    /\ result.op = "opex_breakdown" => ~result.out.raised
    /\ OpexReturned => BreakdownCovers(OpexRowsOf(fd.actuals, ArgMonth[result.month]))

\* C6 amended: the same, over the matching rows of the month that, when an
\* entity is given, are of that entity.
C6_OpexBreakdown ==
    /\ result.op = "opex_breakdown" => ~result.out.raised
    /\ OpexReturned =>
        BreakdownCovers(ForEntity(fd.actuals,
                                  OpexRowsOf(fd.actuals, ArgMonth[result.month]),
                                  result.entity))

\* A breakdown of two categories with different totals
C6_Witness ==
    /\ OpexReturned
    /\ Len(result.out.rows) = 2
    /\ result.out.rows[1].amount_usd > result.out.rows[2].amount_usd
    /\ result.entity = "A"

----------------------------------------------------------------------------
(* Cash runway over varying cash records                                   *)

CashRecords == CashRows({D1, D2, D3}, Entities, {"EUR"}, {<<>>, <<1>>, <<3>>})

InitCash == \E c \in Seqs(CashRecords, MaxRows) :
                Start(Workbook(<<>>, <<>>, c, FxEur), <<>>)

NextCash == Load \/ CallCashRunwayMonths

SpecCash == InitCash /\ [][NextCash]_vars

\* The cash records a call with this entity argument works on
CashOf(entity) ==
    {i \in 1..Len(fd.cash.rows) :
        entity # NoEntity => fd.cash.rows[i]["entity"] = entity}

OnePerMonth(S) ==
    \A i, j \in S :
        fd.cash.rows[i]["date"].ym = fd.cash.rows[j]["date"].ym => i = j

\* The USD balance of cash record i
UsdBalance(i) ==
    LET rate == lookup_rate(fd, fd.cash.rows[i], "currency")
    IN  fd.cash.rows[i]["cash_balance"] * rate[1]

\* The month of S nearest to ym: the latest one not after it, else the
\* earliest one after it
NearestRecord(S, ym) ==
    LET before == {i \in S : fd.cash.rows[i]["date"].ym <= ym}
        after  == {i \in S : fd.cash.rows[i]["date"].ym > ym}
    IN  IF before # {}
        THEN CHOOSE i \in before :
                \A j \in before : fd.cash.rows[j]["date"].ym <= fd.cash.rows[i]["date"].ym
        ELSE CHOOSE i \in after :
                \A j \in after : fd.cash.rows[j]["date"].ym >= fd.cash.rows[i]["date"].ym

RunwayCalled == result.op = "cash_runway_months" /\ result.as_of_month # NoMonth

\* C4: with at most one cash record per month after the entity filter,
\* cash_runway_months works on the 3 months ending at as_of; a month without
\* a record takes the USD balance of the nearest earlier month of the
\* window, else of the nearest later one; avg_monthly_burn_usd is the mean of
\* (balance 1 - balance 2) and (balance 2 - balance 3), or 0.0 when the
\* window has no record; current_cash_usd is the balance of the last month;
\* runway_months is current_cash_usd / avg_monthly_burn_usd when the average
\* burn is strictly positive and infinite otherwise.
C4_CashRunway ==
    (RunwayCalled /\ OnePerMonth(CashOf(result.entity))) =>
        LET out  == result.out
            ym   == ArgMonth[result.as_of_month]
            w    == [k \in 1..3 |-> ym - 3 + k]
            inW  == {i \in CashOf(result.entity) :
                        fd.cash.rows[i]["date"].ym \in {w[1], w[2], w[3]}}
            B    == [k \in 1..3 |-> UsdBalance(NearestRecord(inW, w[k]))]
            f1   == B[1] - B[2]
            f2   == B[2] - B[3]
        IN  /\ ~out.raised
            /\ out.as_of = [ym |-> ym, day |-> 1]
            /\ inW = {} =>
                /\ out.avg_monthly_burn_usd.num = 0
                /\ out.runway_months.inf
            /\ inW # {} =>
                /\ out.current_cash_usd = <<B[3]>>
                /\ out.avg_monthly_burn_usd.den > 0
                /\ out.avg_monthly_burn_usd.num * 2
                    = (f1 + f2) * out.avg_monthly_burn_usd.den
                /\ out.runway_months.inf <=> (f1 + f2 <= 0)
                /\ f1 + f2 > 0 =>
                    /\ out.runway_months.den # 0
                    /\ out.runway_months.num * (f1 + f2)
                        = 2 * B[3] * out.runway_months.den

\* A window whose first month has no record and takes the balance of the
\* second, with cash falling from the second month to the third
C4_Witness ==
    /\ RunwayCalled
    /\ result.entity = "A"
    /\ ~result.out.raised
    /\ ~result.out.runway_months.inf
    /\ \A i \in CashOf("A") : fd.cash.rows[i]["date"].ym > result.out.as_of.ym - 2
    /\ \E i \in 1..Len(fd.cash.rows) : fd.cash.rows[i]["entity"] = "A"
    /\ Len(fd.cash.rows) = MaxRows

----------------------------------------------------------------------------
(* Currency conversion over varying FX rows                                *)

FxRecords == FxRows({D1, D2, D3}, {"EUR", "GBP"}, {2, 3})

ConvRows == AmountRows({D1, D2, D3}, {"A"}, {Cat_Revenue},
                       {"USD", "EUR", "GBP"}, {<<2>>})

InitFx == \E f \in Seqs(FxRecords, MaxFxRows), a \in Seqs(ConvRows, 1) :
                Start(Workbook(a, <<>>, <<>>, f), <<>>)

NextFx == Load \/ CallToUsd

SpecFx == InitFx /\ [][NextFx]_vars

\* The FX rows of currency c, and those among them dated ym
FxOf(c) == {i \in 1..Len(fd.fx.rows) : fd.fx.rows[i]["currency"] = c}
FxAt(c, ym) == {i \in FxOf(c) : fd.fx.rows[i]["date"].ym = ym}

FxMonths == {fd.fx.rows[i]["date"].ym : i \in 1..Len(fd.fx.rows)}

InFxRange(ym) == \E lo, hi \in FxMonths : lo <= ym /\ ym <= hi

\* The rate fill gives (c, ym): the known rate of the pair, else the nearest
\* preceding known rate of c, else the nearest following one
FilledRate(c, ym) ==
    LET before == {i \in FxOf(c) : fd.fx.rows[i]["date"].ym <= ym}
        after  == {i \in FxOf(c) : fd.fx.rows[i]["date"].ym > ym}
    IN  IF before # {}
        THEN fd.fx.rows[CHOOSE i \in before : \A j \in before :
                fd.fx.rows[j]["date"].ym <= fd.fx.rows[i]["date"].ym]["usd_rate"]
        ELSE fd.fx.rows[CHOOSE i \in after : \A j \in after :
                fd.fx.rows[j]["date"].ym >= fd.fx.rows[i]["date"].ym]["usd_rate"]

Converted == result.op = "to_usd"

\* C9: a record whose currency appears in the FX rows and whose month lies
\* between the earliest and the latest FX month is converted at the rate
\* known for the pair, else at the nearest preceding known rate of the
\* currency, else at the nearest following one; 1.0 is used only for a
\* currency never seen in the FX rows or a month outside the FX range; the
\* rate is always a number and amount_usd = amount * rate.
C9_FilledRates ==
    Converted =>
        \A i \in 1..Len(result.out.rows) :
            LET r  == result.out.rows[i]
                c  == r["currency"]
                ym == r["date"].ym
            IN  /\ r["usd_rate"] # <<>>
                /\ r["amount_usd"] = <<r["amount"] * r["usd_rate"][1]>>
                /\ r["usd_rate"] =
                    IF FxOf(c) # {} /\ InFxRange(ym) THEN FilledRate(c, ym)
                    ELSE <<1>>

----------------------------------------------------------------------------
(* The planner's two steps of a run: classify, then resolve the month     *)

\* intent, params = classify(q)
Classify ==
    /\ pc = "loaded"
    /\ result' = [op |-> "classify", out |-> classify(question)]
    /\ pc' = "classified"
    /\ UNCHANGED <<workbook, fd, question>>

\* The month parameter of a classification, None (<<>>) when it has none
MonthParam(c) ==
    IF c.intent \in {"revenue_vs_budget", "opex_breakdown", "ebitda_proxy"}
    THEN c.params.month
    ELSE IF c.intent = "gross_margin_trend" THEN c.params.end_month
    ELSE IF c.intent = "cash_runway" THEN c.params.as_of
    ELSE NoMonth

\* The first line of the operation app.py dispatches to: _month_str_to_ts
\* of the month parameter, when the question gave one
ResolveMonth ==
    /\ pc = "classified"
    /\ MonthParam(result.out) # NoMonth
    /\ result' = [op |-> "month_str_to_ts", intent |-> result.out.intent,
                  month |-> MonthParam(result.out),
                  out |-> month_str_to_ts(MonthParam(result.out))]
    /\ pc' = "answered"
    /\ UNCHANGED <<workbook, fd, question>>

----------------------------------------------------------------------------
(* The whole program over workbooks of every structure                     *)

SheetCols == [actuals |-> ActualsCols, budget |-> ActualsCols,
              cash |-> CashCols, fx |-> FxCols]

\* What may be wrong with the structure of a workbook: nothing, a sheet
\* that is not there, a column that is not there
Defects ==
    {[kind |-> "none"]}
    \cup {[kind |-> "sheet", sheet |-> sh] : sh \in SheetNames}
    \cup UNION {{[kind |-> "column", sheet |-> sh, col |-> c] : c \in SheetCols[sh]} :
                    sh \in SheetNames}

DropColumn(df, c) ==
    [cols |-> df.cols \ {c},
     rows |-> [i \in 1..Len(df.rows) |-> [k \in df.cols \ {c} |-> df.rows[i][k]]]]

WithDefect(wb, x) ==
    IF x.kind = "sheet" THEN [sh \in SheetNames \ {x.sheet} |-> wb[sh]]
    ELSE IF x.kind = "column"
    THEN [wb EXCEPT ![x.sheet] = DropColumn(wb[x.sheet], x.col)]
    ELSE wb

\* June 2025 entered as two different days
D2a == [ym |-> M2, day |-> 1]

LoadActuals == AmountRows({D2}, {"A"}, {Cat_Revenue, Cat_Opex}, {"EUR"}, {<<>>, <<2>>})
LoadCash    == CashRows({D1, D2}, Entities, {"EUR"}, {<<>>, <<1>>})
LoadFx      == FxRows({D1, D2, D2a}, {"EUR"}, {2})

Q_revenue_budget == <<"R","e","v","e","n","u","e"," ","v","s"," ","b","u","d","g","e","t"," ","f","o","r"," ","J","u","n","e"," ","2","0","2","5">>
Q_runway         == <<"W","h","a","t"," ","i","s"," ","o","u","r"," ","c","a","s","h"," ","r","u","n","w","a","y","?">>

Init ==
    \E a \in Seqs(LoadActuals, MaxRows), c \in Seqs(LoadCash, MaxRows),
       f \in Seqs(LoadFx, MaxRows), x \in Defects,
       q \in {Q_revenue_budget, Q_runway} :
        /\ Len(a) + Len(c) + Len(f) <= MaxRows
        /\ x.kind # "none" => Len(a) + Len(c) + Len(f) <= 1
        /\ q = Q_runway => (x.kind = "none" /\ Len(a) + Len(c) + Len(f) = 0)
        /\ Start(WithDefect(Workbook(a, <<>>, c, f), x), q)

Next ==
    \/ Load
    \/ CallRevenueVsBudget
    \/ CallGrossMarginTrend
    \/ CallOpexBreakdown
    \/ CallEbitdaProxy
    \/ CallCashRunwayMonths
    \/ CallToUsd
    \/ Classify
    \/ ResolveMonth

Spec == Init /\ [][Next]_vars

AnalyticsOps == {"revenue_vs_budget", "gross_margin_trend", "opex_breakdown",
                 "ebitda_proxy", "cash_runway_months"}

\* Every sheet is there with every column
WellFormed ==
    /\ DOMAIN workbook = SheetNames
    /\ \A sh \in SheetNames : workbook[sh].cols = SheetCols[sh]

\* C7: once a dataset has loaded, each of the five analytics operations,
\* called with a valid month string or without its optional month and with
\* any entity, returns a result and never raises, whatever the rows are:
\* sparse months, several entities in a month, currencies without FX rows,
\* sheets without rows.
C7_NeverRaises ==
    (pc = "answered" /\ result.op \in AnalyticsOps /\ WellFormed)
        => ~result.out.raised

\* The columns the load needs of each sheet
RequiredCols == [actuals |-> {"month", "amount"}, budget |-> {"month", "amount"},
                 cash |-> {"month", "cash_usd"},
                 fx |-> {"month", "currency", "rate_to_usd"}]

MissingRequired ==
    \/ DOMAIN workbook # SheetNames
    \/ \E sh \in DOMAIN workbook : ~(RequiredCols[sh] \subseteq workbook[sh].cols)

\* Every cell of the numeric column of a loaded frame is the number
\* entered, 0 where the cell entered was not a number
LoadedAsEntered(df, raw, col, rawcol) ==
    col \in df.cols =>
        \A i \in 1..Len(df.rows) :
            df.rows[i][col] = IF raw.rows[i][rawcol] = <<>> THEN 0
                              ELSE raw.rows[i][rawcol][1]

\* C8: loading fails whenever one of the four sheets or one of their
\* required columns (month, amount, cash_usd, rate_to_usd, currency) is
\* missing, and for no other reason; a numeric cell that does not parse is
\* loaded as 0 and never fails the load.
C8_LoadFailsOnlyOnStructure ==
    result.op = "load" =>
        /\ result.out.raised <=> MissingRequired
        /\ ~result.out.raised =>
            /\ LoadedAsEntered(fd.actuals, workbook.actuals, "amount", "amount")
            /\ LoadedAsEntered(fd.budget, workbook.budget, "amount", "amount")
            /\ LoadedAsEntered(fd.cash, workbook.cash, "cash_balance", "cash_usd")

----------------------------------------------------------------------------
(* The planner over questions that name June 2025                          *)

W_revenue == <<"R","e","v","e","n","u","e">>
W_budget  == <<"b","u","d","g","e","t">>
W_for     == <<"f","o","r">>
W_in      == <<"i","n">>
W_EBITDA  == <<"E","B","I","T","D","A">>
W_hello   == <<"h","e","l","l","o">>

Words == {W_revenue, W_budget, W_for, W_in, W_EBITDA, W_hello}

\* The four ways the question may write June 2025
JuneForms == {Str_June_2025, Str_Jun_2025, Str_2025_06, Str_2025_06_01}

\* The words, each followed by a space
RECURSIVE Before(_)
Before(ws) == IF ws = <<>> THEN <<>> ELSE Head(ws) \o <<" ">> \o Before(Tail(ws))

\* The words, each preceded by a space
RECURSIVE After(_)
After(ws) == IF ws = <<>> THEN <<>> ELSE <<" ">> \o Head(ws) \o After(Tail(ws))

PlannerWorkbook == Workbook(<<>>, <<>>, <<>>, <<>>)

InitPlanner ==
    \E pre \in Seqs(Words, MaxWords), post \in Seqs(Words, MaxWords),
       f \in JuneForms :
        /\ Len(pre) + Len(post) <= MaxWords
        /\ Start(PlannerWorkbook, Before(pre) \o f \o After(post))

NextPlanner == Load \/ Classify \/ ResolveMonth

SpecPlanner == InitPlanner /\ [][NextPlanner]_vars

\* The month expression the question was written with: the longest of the
\* four forms it contains
MonthWritten ==
    CHOOSE f \in JuneForms :
        /\ Contains(question, f)
        /\ \A g \in JuneForms : Contains(question, g) => Len(g) <= Len(f)

\* C10: for every question that contains June 2025 written in one of the
\* four forms, whatever words precede or follow it, the month parameter that
\* classify returns is that expression (in the lower case classify works
\* in; read for the questions that classify to an intent, the others carry
\* no parameter), and _month_str_to_ts resolves it to 1 June 2025.
C10_MonthExtracted ==
    /\ (pc = "classified" /\ result.out.intent # "unknown")
            => MonthParam(result.out) = Lower(MonthWritten)
    /\ (pc = "answered" /\ result.op = "month_str_to_ts")
            => result.out = [raised |-> FALSE, ts |-> Timestamp(2025, 6, 1)]

====
